---- MODULE Spec2Model ----
(***************************************************************************)
(* Model of keymaster/4.0/support/include/keymasterV4_0/keymaster_tags.h:  *)
(* typed tags, the tag-to-field accessors, Authorization,                  *)
(* authorizationValue, NullOr with NullOrOr and defaultOr, and operator==  *)
(* on KeyParameter.                                                        *)
(*                                                                         *)
(* Representation.  A 32-bit tag value is the record [hi, lo]: hi is its   *)
(* top four bits, lo its low 28 bits (a 32-bit value does not fit a TLC    *)
(* integer).  A value stored in a KeyParameter is its little-endian byte   *)
(* sequence, so that the members of the union KeyParameter::f overlay each *)
(* other as they do in memory.                                             *)
(***************************************************************************)
EXTENDS Integers, Sequences, FiniteSets, TLC

VARIABLES a, b, made, res, pc

vars == <<a, b, made, res, pc>>

---------------------------------------------------------------------------
(* TagType and Tag of keymaster/4.0/types.hal *)

\* enum TagType : uint32_t { INVALID = 0 << 28, ENUM = 1 << 28, ... }: the
\* number here is the top nibble.
TagType ==
    [INVALID |-> 0, ENUM |-> 1, ENUM_REP |-> 2, UINT |-> 3, UINT_REP |-> 4,
     ULONG |-> 5, DATE |-> 6, BOOL |-> 7, BIGNUM |-> 8, BYTES |-> 9,
     ULONG_REP |-> 10]

\* type | id as a 32-bit value
MkTag(type, id) == [hi |-> type, lo |-> id]

\* enum Tag : uint32_t
Tag ==
    [INVALID                        |-> MkTag(TagType.INVALID, 0),
     PURPOSE                        |-> MkTag(TagType.ENUM_REP, 1),
     ALGORITHM                      |-> MkTag(TagType.ENUM, 2),
     KEY_SIZE                       |-> MkTag(TagType.UINT, 3),
     BLOCK_MODE                     |-> MkTag(TagType.ENUM_REP, 4),
     DIGEST                         |-> MkTag(TagType.ENUM_REP, 5),
     PADDING                        |-> MkTag(TagType.ENUM_REP, 6),
     CALLER_NONCE                   |-> MkTag(TagType.BOOL, 7),
     MIN_MAC_LENGTH                 |-> MkTag(TagType.UINT, 8),
     EC_CURVE                       |-> MkTag(TagType.ENUM, 10),
     RSA_PUBLIC_EXPONENT            |-> MkTag(TagType.ULONG, 200),
     INCLUDE_UNIQUE_ID              |-> MkTag(TagType.BOOL, 202),
     BLOB_USAGE_REQUIREMENTS        |-> MkTag(TagType.ENUM, 301),
     BOOTLOADER_ONLY                |-> MkTag(TagType.BOOL, 302),
     ROLLBACK_RESISTANCE            |-> MkTag(TagType.BOOL, 303),
     HARDWARE_TYPE                  |-> MkTag(TagType.ENUM, 304),
     ACTIVE_DATETIME                |-> MkTag(TagType.DATE, 400),
     ORIGINATION_EXPIRE_DATETIME    |-> MkTag(TagType.DATE, 401),
     USAGE_EXPIRE_DATETIME          |-> MkTag(TagType.DATE, 402),
     MIN_SECONDS_BETWEEN_OPS        |-> MkTag(TagType.UINT, 403),
     MAX_USES_PER_BOOT              |-> MkTag(TagType.UINT, 404),
     USER_ID                        |-> MkTag(TagType.UINT, 501),
     USER_SECURE_ID                 |-> MkTag(TagType.ULONG_REP, 502),
     NO_AUTH_REQUIRED               |-> MkTag(TagType.BOOL, 503),
     USER_AUTH_TYPE                 |-> MkTag(TagType.ENUM, 504),
     AUTH_TIMEOUT                   |-> MkTag(TagType.UINT, 505),
     ALLOW_WHILE_ON_BODY            |-> MkTag(TagType.BOOL, 506),
     TRUSTED_USER_PRESENCE_REQUIRED |-> MkTag(TagType.BOOL, 507),
     TRUSTED_CONFIRMATION_REQUIRED  |-> MkTag(TagType.BOOL, 508),
     UNLOCKED_DEVICE_REQUIRED       |-> MkTag(TagType.BOOL, 509),
     APPLICATION_ID                 |-> MkTag(TagType.BYTES, 601),
     APPLICATION_DATA               |-> MkTag(TagType.BYTES, 700),
     CREATION_DATETIME              |-> MkTag(TagType.DATE, 701),
     ORIGIN                         |-> MkTag(TagType.ENUM, 702),
     ROOT_OF_TRUST                  |-> MkTag(TagType.BYTES, 704),
     OS_VERSION                     |-> MkTag(TagType.UINT, 705),
     OS_PATCHLEVEL                  |-> MkTag(TagType.UINT, 706),
     UNIQUE_ID                      |-> MkTag(TagType.BYTES, 707),
     ATTESTATION_CHALLENGE          |-> MkTag(TagType.BYTES, 708),
     ATTESTATION_APPLICATION_ID     |-> MkTag(TagType.BYTES, 709),
     ATTESTATION_ID_BRAND           |-> MkTag(TagType.BYTES, 710),
     ATTESTATION_ID_DEVICE          |-> MkTag(TagType.BYTES, 711),
     ATTESTATION_ID_PRODUCT         |-> MkTag(TagType.BYTES, 712),
     ATTESTATION_ID_SERIAL          |-> MkTag(TagType.BYTES, 713),
     ATTESTATION_ID_IMEI            |-> MkTag(TagType.BYTES, 714),
     ATTESTATION_ID_MEID            |-> MkTag(TagType.BYTES, 715),
     ATTESTATION_ID_MANUFACTURER    |-> MkTag(TagType.BYTES, 716),
     ATTESTATION_ID_MODEL           |-> MkTag(TagType.BYTES, 717),
     VENDOR_PATCHLEVEL              |-> MkTag(TagType.UINT, 718),
     BOOT_PATCHLEVEL                |-> MkTag(TagType.UINT, 719),
     ASSOCIATED_DATA                |-> MkTag(TagType.BYTES, 1000),
     NONCE                          |-> MkTag(TagType.BYTES, 1001),
     MAC_LENGTH                     |-> MkTag(TagType.UINT, 1003),
     RESET_SINCE_ID_ROTATION        |-> MkTag(TagType.BOOL, 1004),
     CONFIRMATION_TOKEN             |-> MkTag(TagType.BYTES, 1005)]

\* the enumerators of Tag
TagValues == {Tag[n] : n \in DOMAIN Tag}

\* numeric tag values the header adds outside the enumeration
KM_TAG_DIGEST_OLD == MkTag(TagType.ENUM, 5)
KM_TAG_PADDING_OLD == MkTag(TagType.ENUM, 7)
KM_TAG_FBE_ICE == MkTag(TagType.BOOL, 16201)
KM_TAG_KEY_TYPE == MkTag(TagType.UINT, 16202)

KM_TAGS == {KM_TAG_DIGEST_OLD, KM_TAG_PADDING_OLD, KM_TAG_FBE_ICE, KM_TAG_KEY_TYPE}

\* every tag value a KeyParameter of the model holds
AllTagValues == TagValues \cup KM_TAGS

\* x & y on natural numbers
RECURSIVE BitAnd(_, _)
BitAnd(x, y) ==
    IF x = 0 \/ y = 0 THEN 0
    ELSE (x % 2) * (y % 2) + 2 * BitAnd(x \div 2, y \div 2)

\* x & y on 32-bit values
And32(x, y) == [hi |-> BitAnd(x.hi, y.hi), lo |-> BitAnd(x.lo, y.lo)]

\* 0xf0000000
TypeMask == [hi |-> 15, lo |-> 0]

\* 0xff000000
ByteMask == [hi |-> 15, lo |-> 251658240]

\* typeFromTag masking with 0xff000000
typeFromTagByte(tag) == And32(tag, ByteMask)

\* constexpr TagType typeFromTag(Tag tag): tag & 0xf0000000
typeFromTag(tag) == And32(tag, TypeMask)

\* a TagType enumerator as the 32-bit value it is
TagTypeValue(name) == MkTag(TagType[name], 0)

---------------------------------------------------------------------------
(* TypedTag, Tag2TypedTag and the DECLARE_TYPED_TAG list *)

\* template <TagType tag_type, Tag tag> struct TypedTag
TypedTag(tag_type, tag) == [tag_type |-> tag_type, tag |-> tag]

\* the static_assert of TypedTag(): typeFromTag(tag) == tag_type
TypedTagConstructs(ttag) == typeFromTag(ttag.tag) = ttag.tag_type

\* 0x0FFFFFFF
TagMask == [hi |-> 0, lo |-> 268435455]

\* 0x00FFFFFF
ShortTagMask == [hi |-> 0, lo |-> 16777215]

\* the value of a 32-bit pattern converted to int32_t
ToInt32(x) ==
    IF x.hi < 8 THEN x.hi * 268435456 + x.lo
    ELSE (x.hi - 16) * 268435456 + x.lo

\* maskedTag masking with 0x00FFFFFF
maskedTagShort(ttag) == ToInt32(And32(ttag.tag, ShortTagMask))

\* int32_t TypedTag::maskedTag(): tag & 0x0FFFFFFF
maskedTag(ttag) == ToInt32(And32(ttag.tag, TagMask))

\* Tag2TypedTag pairing the tag with itself, the mask forgotten
Tag2TypedTagUnmasked(tag) == TypedTag(tag, tag)

\* Tag2TypedTag<tag>::type
Tag2TypedTag(tag) == TypedTag(typeFromTag(tag), tag)

\* the names given to DECLARE_TYPED_TAG
DeclaredTagNames ==
    {"ACTIVE_DATETIME", "ALGORITHM", "ALLOW_WHILE_ON_BODY", "APPLICATION_DATA",
     "APPLICATION_ID", "ASSOCIATED_DATA", "ATTESTATION_APPLICATION_ID",
     "ATTESTATION_CHALLENGE", "AUTH_TIMEOUT", "BLOB_USAGE_REQUIREMENTS",
     "BLOCK_MODE", "BOOTLOADER_ONLY", "BOOT_PATCHLEVEL", "CALLER_NONCE",
     "CONFIRMATION_TOKEN", "CREATION_DATETIME", "DIGEST", "EC_CURVE",
     "HARDWARE_TYPE", "INCLUDE_UNIQUE_ID", "INVALID", "KEY_SIZE", "MAC_LENGTH",
     "MAX_USES_PER_BOOT", "MIN_MAC_LENGTH", "MIN_SECONDS_BETWEEN_OPS", "NONCE",
     "NO_AUTH_REQUIRED", "ORIGIN", "ORIGINATION_EXPIRE_DATETIME",
     "OS_PATCHLEVEL", "OS_VERSION", "PADDING", "PURPOSE",
     "RESET_SINCE_ID_ROTATION", "ROLLBACK_RESISTANCE", "ROOT_OF_TRUST",
     "RSA_PUBLIC_EXPONENT", "TRUSTED_CONFIRMATION_REQUIRED",
     "TRUSTED_USER_PRESENCE_REQUIRED", "UNIQUE_ID", "UNLOCKED_DEVICE_REQUIRED",
     "USAGE_EXPIRE_DATETIME", "USER_AUTH_TYPE", "USER_ID", "USER_SECURE_ID",
     "VENDOR_PATCHLEVEL"}

\* DECLARE_TYPED_TAG(name): the instance TAG_name
TAG(name) == Tag2TypedTag(Tag[name])

\* the typed tags the header declares
TypedTags == {TAG(n) : n \in DeclaredTagNames}

\* using all_tags_t = MetaList<TAG_INVALID_t, ...>: the elements in order
all_tags_t ==
    <<"INVALID", "KEY_SIZE", "MAC_LENGTH", "CALLER_NONCE", "MIN_MAC_LENGTH",
      "RSA_PUBLIC_EXPONENT", "INCLUDE_UNIQUE_ID", "ACTIVE_DATETIME",
      "ORIGINATION_EXPIRE_DATETIME", "USAGE_EXPIRE_DATETIME",
      "MIN_SECONDS_BETWEEN_OPS", "MAX_USES_PER_BOOT", "USER_ID",
      "USER_SECURE_ID", "NO_AUTH_REQUIRED", "AUTH_TIMEOUT",
      "ALLOW_WHILE_ON_BODY", "UNLOCKED_DEVICE_REQUIRED", "APPLICATION_ID",
      "APPLICATION_DATA", "CREATION_DATETIME", "ROLLBACK_RESISTANCE",
      "HARDWARE_TYPE", "ROOT_OF_TRUST", "ASSOCIATED_DATA", "NONCE",
      "BOOTLOADER_ONLY", "OS_VERSION", "OS_PATCHLEVEL", "UNIQUE_ID",
      "ATTESTATION_CHALLENGE", "ATTESTATION_APPLICATION_ID",
      "RESET_SINCE_ID_ROTATION", "PURPOSE", "ALGORITHM", "BLOCK_MODE",
      "DIGEST", "PADDING", "BLOB_USAGE_REQUIREMENTS", "ORIGIN",
      "USER_AUTH_TYPE", "EC_CURVE", "BOOT_PATCHLEVEL", "VENDOR_PATCHLEVEL",
      "TRUSTED_CONFIRMATION_REQUIRED", "TRUSTED_USER_PRESENCE_REQUIRED">>

\* the positions of all_tags_t that hold TAG_name_t
PositionsInAllTags(name) == {i \in 1..Len(all_tags_t) : all_tags_t[i] = name}

---------------------------------------------------------------------------
(* KeyParameter: Tag tag; union IntegerParams f; vec<uint8_t> blob *)

\* size in bytes of each member of the union f (all at offset 0)
FieldSize ==
    [algorithm |-> 4, blockMode |-> 4, paddingMode |-> 4, digest |-> 4,
     ecCurve |-> 4, origin |-> 4, keyBlobUsageRequirements |-> 4,
     purpose |-> 4, keyDerivationFunction |-> 4,
     hardwareAuthenticatorType |-> 4, hardwareType |-> 4, boolValue |-> 1,
     integer |-> 4, longInteger |-> 8, dateTime |-> 8]

UnionSize == 8

UnionFields == DOMAIN FieldSize

Fields == UnionFields \cup {"blob"}

Zeros(n) == [i \in 1..n |-> 0]

\* read of param.<field>
ReadField(param, field) ==
    IF field = "blob" THEN param.blob
    ELSE SubSeq(param.f, 1, FieldSize[field])

\* param.<field> = v: the bytes of the member are overwritten, the rest of
\* the union keeps its bytes
WriteField(param, field, v) ==
    IF field = "blob" THEN [param EXCEPT !.blob = v]
    ELSE [param EXCEPT !.f = v \o SubSeq(param.f, Len(v) + 1, UnionSize)]

---------------------------------------------------------------------------
(* TypedTag2ValueType / accessTagValue *)

\* MAKE_TAG_VALUE_ACCESSOR(tag_type, field_name): one per category
CategoryAccessor ==
    [ULONG |-> "longInteger", ULONG_REP |-> "longInteger", DATE |-> "dateTime",
     UINT |-> "integer", UINT_REP |-> "integer", BOOL |-> "boolValue",
     BYTES |-> "blob", BIGNUM |-> "blob"]

\* MAKE_TAG_ENUM_VALUE_ACCESSOR(typed_tag, field_name): one per typed tag
EnumAccessor ==
    [ALGORITHM |-> "algorithm",
     BLOB_USAGE_REQUIREMENTS |-> "keyBlobUsageRequirements",
     BLOCK_MODE |-> "blockMode", DIGEST |-> "digest", EC_CURVE |-> "ecCurve",
     ORIGIN |-> "origin", PADDING |-> "paddingMode", PURPOSE |-> "purpose",
     USER_AUTH_TYPE |-> "hardwareAuthenticatorType",
     HARDWARE_TYPE |-> "hardwareType"]

\* the fields the overloads of accessTagValue that accept ttag return: the
\* specializations for decltype(TAG_x) and the templates over tag_type
AccessorFields(ttag) ==
    {EnumAccessor[n] : n \in {m \in DOMAIN EnumAccessor : TAG(m) = ttag}}
    \cup
    {CategoryAccessor[c] :
        c \in {d \in DOMAIN CategoryAccessor : TagTypeValue(d) = ttag.tag_type}}

\* TypedTag2ValueType<ttag> is defined and accessTagValue(ttag, .) resolves
HasAccessor(ttag) == AccessorFields(ttag) # {}

\* the field accessTagValue(ttag, param) refers to
FieldOfTypedTag(ttag) == CHOOSE fld \in AccessorFields(ttag) : TRUE

\* accessTagValue(ttag, param): a reference to the field of the object p
accessTagValue(ttag, p) == [obj |-> p, field |-> FieldOfTypedTag(ttag)]

\* a mutable accessor that refers to f.longInteger whatever the typed tag
accessTagValueMutableLong(ttag, p) == [obj |-> p, field |-> "longInteger"]

\* accessTagValue(ttag, param) on a KeyParameter& that is not const: the
\* second overload of each accessor macro
accessTagValueMutable(ttag, p) == [obj |-> p, field |-> FieldOfTypedTag(ttag)]

\* the content a reference refers to, in the store s of KeyParameter objects
Deref(ref, s) == ReadField(s[ref.obj], ref.field)

\* ref = v: the store after the assignment through the reference
AssignThrough(ref, v, s) ==
    [s EXCEPT ![ref.obj] = WriteField(s[ref.obj], ref.field, v)]

---------------------------------------------------------------------------
(* makeKeyParameter and Authorization *)

\* makeKeyParameter with its two writes in the other order: the value is
\* stored first and f.longInteger = 0 then clears it
makeKeyParameterZeroLast(ttag, value, param0) ==
    LET p1 == [param0 EXCEPT !.tag = ttag.tag]
        p2 == WriteField(p1, FieldOfTypedTag(ttag), value)
    IN  WriteField(p2, "longInteger", Zeros(FieldSize.longInteger))

\* makeKeyParameter(ttag, value); param0 is the default-constructed
\* "KeyParameter param;"
makeKeyParameter(ttag, value, param0) ==
    LET p1 == [param0 EXCEPT !.tag = ttag.tag]
        p2 == WriteField(p1, "longInteger", Zeros(FieldSize.longInteger))
    IN  WriteField(p2, FieldOfTypedTag(ttag), value)

\* the boolean case without "param.f.boolValue = true"
makeKeyParameterBoolUnset(ttag, param0) == [param0 EXCEPT !.tag = ttag.tag]

\* makeKeyParameter(TypedTag<TagType::BOOL, tag>): the boolean case
makeKeyParameterBool(ttag, param0) ==
    LET p1 == [param0 EXCEPT !.tag = ttag.tag]
    IN  WriteField(p1, "boolValue", <<1>>)

\* Authorization without its second static_assert (exactly one parameter
\* for the types other than BOOL)
AuthorizationCompilesAnyCount(ttag, args) ==
    /\ ttag.tag_type # TagTypeValue("BOOL") \/ Len(args) = 0
    /\ ttag.tag_type = TagTypeValue("BOOL") \/ HasAccessor(ttag)

\* the three static_asserts of Authorization.  An argument of the model is
\* already a value of the mapped type, so of the third one only the
\* existence of TypedTag2ValueType<ttag> is left.
AuthorizationCompiles(ttag, args) ==
    /\ ttag.tag_type # TagTypeValue("BOOL") \/ Len(args) = 0
    /\ ttag.tag_type = TagTypeValue("BOOL") \/ Len(args) = 1
    /\ ttag.tag_type = TagTypeValue("BOOL") \/ HasAccessor(ttag)

\* Authorization(ttag, args...): makeKeyParameter(ttag, args...)
Authorization(ttag, args, param0) ==
    IF Len(args) = 0 THEN makeKeyParameterBool(ttag, param0)
    ELSE makeKeyParameter(ttag, args[1], param0)

---------------------------------------------------------------------------
(* NullOr<ValueT>.  T describes ValueT: T.isRef when ValueT is an lvalue    *)
(* reference, T.isPtr when it is a pointer, T.field names the KeyParameter  *)
(* member whose type it wraps (refers to, points to).                       *)

nullptr == [obj |-> "nullptr", field |-> "nullptr"]

\* what reading through a null reference yields: undefined behaviour
UB == <<-1>>

\* ValueT()
ValueInit(T) == IF T.field = "blob" THEN <<>> ELSE Zeros(FieldSize[T.field])

\* NullOr() leaving the wrapper valid
NullOrNullValid(T) ==
    [T |-> T, value_ |-> IF T.isRef \/ T.isPtr THEN nullptr ELSE ValueInit(T),
     null_ |-> FALSE]

\* NullOr(): value_(initializer_t::init()), null_(true)
NullOrNull(T) ==
    [T |-> T, value_ |-> IF T.isRef \/ T.isPtr THEN nullptr ELSE ValueInit(T),
     null_ |-> TRUE]

\* NullOr(T&& value) for a value type, NullOr(T& value) for a reference:
\* value_ is the value, or the address of the referent
NullOrOf(T, v) == [T |-> T, value_ |-> v, null_ |-> FALSE]

\* bool isOk() const
isOk(w) == ~w.null_

\* value(): deref_t::deref(value_)
value(w, s) ==
    IF w.T.isRef
    THEN IF w.value_ = nullptr THEN UB ELSE Deref(w.value_, s)
    ELSE w.value_

\* NullOrOr scanning from the right: the last valid argument wins
RECURSIVE NullOrOrRightmost(_)
NullOrOrRightmost(ws) ==
    IF Len(ws) = 1
    THEN IF isOk(ws[1]) THEN ws[1] ELSE NullOrNull(ws[1].T)
    ELSE IF isOk(ws[Len(ws)]) THEN ws[Len(ws)]
         ELSE NullOrOrRightmost(SubSeq(ws, 1, Len(ws) - 1))

\* NullOrOr(head, tail...)
RECURSIVE NullOrOr(_)
NullOrOr(ws) ==
    IF Len(ws) = 1
    THEN IF isOk(ws[1]) THEN ws[1] ELSE NullOrNull(ws[1].T)
    ELSE IF isOk(Head(ws)) THEN Head(ws) ELSE NullOrOr(Tail(ws))

\* defaultOr with the test inverted
defaultOrInverted(optional, def, s) ==
    IF ~isOk(optional) THEN value(optional, s) ELSE def

\* defaultOr(optional, def)
defaultOr(optional, def, s) ==
    IF isOk(optional) THEN value(optional, s) ELSE def

\* authorizationValue comparing the tag types only
authorizationValueByType(ttag, p, s) ==
    LET T == [isRef |-> TRUE, isPtr |-> FALSE, field |-> FieldOfTypedTag(ttag)]
    IN  IF ttag.tag_type # typeFromTag(s[p].tag) THEN NullOrNull(T)
        ELSE NullOrOf(T, accessTagValue(ttag, p))

\* authorizationValue returning a reference to f.longInteger for every tag
authorizationValueLong(ttag, p, s) ==
    LET T == [isRef |-> TRUE, isPtr |-> FALSE, field |-> "longInteger"]
    IN  IF ttag.tag # s[p].tag THEN NullOrNull(T)
        ELSE NullOrOf(T, [obj |-> p, field |-> "longInteger"])

\* authorizationValue(ttag, param), param being the object p of the store s
authorizationValue(ttag, p, s) ==
    LET T == [isRef |-> TRUE, isPtr |-> FALSE, field |-> FieldOfTypedTag(ttag)]
    IN  IF ttag.tag # s[p].tag THEN NullOrNull(T)
        ELSE NullOrOf(T, accessTagValue(ttag, p))

---------------------------------------------------------------------------
(* operator==(const KeyParameter& a, const KeyParameter& b) *)

\* the case labels of the switch, by the statement they fall to
BooleanCases ==
    {"INVALID", "CALLER_NONCE", "INCLUDE_UNIQUE_ID", "BOOTLOADER_ONLY",
     "NO_AUTH_REQUIRED", "ALLOW_WHILE_ON_BODY", "UNLOCKED_DEVICE_REQUIRED",
     "ROLLBACK_RESISTANCE", "RESET_SINCE_ID_ROTATION",
     "TRUSTED_CONFIRMATION_REQUIRED", "TRUSTED_USER_PRESENCE_REQUIRED"}

IntegerCases ==
    {"KEY_SIZE", "MIN_MAC_LENGTH", "MIN_SECONDS_BETWEEN_OPS",
     "MAX_USES_PER_BOOT", "OS_VERSION", "OS_PATCHLEVEL", "MAC_LENGTH",
     "USER_ID", "AUTH_TIMEOUT", "VENDOR_PATCHLEVEL", "BOOT_PATCHLEVEL"}

\* the long integer cases without the label USER_SECURE_ID
LongIntegerCasesShort == {"RSA_PUBLIC_EXPONENT"}

LongIntegerCases == {"RSA_PUBLIC_EXPONENT", "USER_SECURE_ID"}

DateTimeCases ==
    {"ACTIVE_DATETIME", "ORIGINATION_EXPIRE_DATETIME", "USAGE_EXPIRE_DATETIME",
     "CREATION_DATETIME"}

BytesCases ==
    {"APPLICATION_ID", "APPLICATION_DATA", "ROOT_OF_TRUST", "UNIQUE_ID",
     "ATTESTATION_CHALLENGE", "ATTESTATION_APPLICATION_ID",
     "ATTESTATION_ID_BRAND", "ATTESTATION_ID_DEVICE", "ATTESTATION_ID_PRODUCT",
     "ATTESTATION_ID_SERIAL", "ATTESTATION_ID_IMEI", "ATTESTATION_ID_MEID",
     "ATTESTATION_ID_MANUFACTURER", "ATTESTATION_ID_MODEL", "ASSOCIATED_DATA",
     "CONFIRMATION_TOKEN", "NONCE"}

\* the enum cases with USER_AUTH_TYPE comparing f.boolValue
EnumCasesUserAuthBool ==
    [PURPOSE |-> "purpose", ALGORITHM |-> "algorithm",
     BLOCK_MODE |-> "blockMode", DIGEST |-> "digest",
     PADDING |-> "paddingMode", EC_CURVE |-> "ecCurve",
     BLOB_USAGE_REQUIREMENTS |-> "keyBlobUsageRequirements",
     USER_AUTH_TYPE |-> "boolValue", ORIGIN |-> "origin",
     HARDWARE_TYPE |-> "hardwareType"]

\* the enum cases: each label with the member its statement compares
EnumCases ==
    [PURPOSE |-> "purpose", ALGORITHM |-> "algorithm",
     BLOCK_MODE |-> "blockMode", DIGEST |-> "digest",
     PADDING |-> "paddingMode", EC_CURVE |-> "ecCurve",
     BLOB_USAGE_REQUIREMENTS |-> "keyBlobUsageRequirements",
     USER_AUTH_TYPE |-> "integer", ORIGIN |-> "origin",
     HARDWARE_TYPE |-> "hardwareType"]

\* tag is one of the labels of the set of names
IsCase(tag, names) == \E n \in names : Tag[n] = tag

\* the branches of the switch, named by the comment that heads each, with
\* their labels
Branches ==
    [boolean |-> BooleanCases, integer |-> IntegerCases,
     longInteger |-> LongIntegerCases, dateTime |-> DateTimeCases,
     bytes |-> BytesCases, enum |-> DOMAIN EnumCases]

\* the branches that have tag among their labels
BranchesOf(tag) == {br \in DOMAIN Branches : IsCase(tag, Branches[br])}

\* x.<field> == y.<field>
SameField(x, y, field) == ReadField(x, field) = ReadField(y, field)

\* the switch with the long integer tags comparing f.integer
EqualsSwitchLongAsInteger(x, y) ==
    IF IsCase(x.tag, BooleanCases) THEN TRUE
    ELSE IF IsCase(x.tag, IntegerCases \cup LongIntegerCases)
         THEN SameField(x, y, "integer")
    ELSE IF IsCase(x.tag, DateTimeCases) THEN SameField(x, y, "dateTime")
    ELSE IF IsCase(x.tag, BytesCases) THEN SameField(x, y, "blob")
    ELSE IF IsCase(x.tag, DOMAIN EnumCases)
         THEN SameField(x, y,
                  EnumCases[CHOOSE n \in DOMAIN EnumCases : Tag[n] = x.tag])
    ELSE FALSE

\* the switch with the boolean tags comparing f.boolValue
EqualsSwitchBoolValue(x, y) ==
    IF IsCase(x.tag, BooleanCases) THEN SameField(x, y, "boolValue")
    ELSE IF IsCase(x.tag, IntegerCases) THEN SameField(x, y, "integer")
    ELSE IF IsCase(x.tag, LongIntegerCases) THEN SameField(x, y, "longInteger")
    ELSE IF IsCase(x.tag, DateTimeCases) THEN SameField(x, y, "dateTime")
    ELSE IF IsCase(x.tag, BytesCases) THEN SameField(x, y, "blob")
    ELSE IF IsCase(x.tag, DOMAIN EnumCases)
         THEN SameField(x, y,
                  EnumCases[CHOOSE n \in DOMAIN EnumCases : Tag[n] = x.tag])
    ELSE FALSE

\* the switch followed by "return true"
EqualsSwitchDefaultTrue(x, y) ==
    IF IsCase(x.tag, BooleanCases) THEN TRUE
    ELSE IF IsCase(x.tag, IntegerCases) THEN SameField(x, y, "integer")
    ELSE IF IsCase(x.tag, LongIntegerCases) THEN SameField(x, y, "longInteger")
    ELSE IF IsCase(x.tag, DateTimeCases) THEN SameField(x, y, "dateTime")
    ELSE IF IsCase(x.tag, BytesCases) THEN SameField(x, y, "blob")
    ELSE IF IsCase(x.tag, DOMAIN EnumCases)
         THEN SameField(x, y,
                  EnumCases[CHOOSE n \in DOMAIN EnumCases : Tag[n] = x.tag])
    ELSE TRUE

\* switch (a.tag) { ... } return false;
EqualsSwitch(x, y) ==
    IF IsCase(x.tag, BooleanCases) THEN TRUE
    ELSE IF IsCase(x.tag, IntegerCases) THEN SameField(x, y, "integer")
    ELSE IF IsCase(x.tag, LongIntegerCases) THEN SameField(x, y, "longInteger")
    ELSE IF IsCase(x.tag, DateTimeCases) THEN SameField(x, y, "dateTime")
    ELSE IF IsCase(x.tag, BytesCases) THEN SameField(x, y, "blob")
    ELSE IF IsCase(x.tag, DOMAIN EnumCases)
         THEN SameField(x, y,
                  EnumCases[CHOOSE n \in DOMAIN EnumCases : Tag[n] = x.tag])
    ELSE FALSE

\* operator== comparing the tag and the whole payload, member by member
EqualsWholePayload(x, y) == x.tag = y.tag /\ x.f = y.f /\ x.blob = y.blob

\* operator== without the comparison of the tags
EqualsNoTagCheck(x, y) == EqualsSwitch(x, y)

\* operator==
Equals(x, y) == IF x.tag # y.tag THEN FALSE ELSE EqualsSwitch(x, y)

---------------------------------------------------------------------------
(* Inputs *)

\* contents of the eight bytes of f: all zero, a one in the first byte, in
\* the second byte, in the high word only
UnionVals ==
    {Zeros(UnionSize),
     <<1, 0, 0, 0, 0, 0, 0, 0>>,
     <<0, 1, 0, 0, 0, 0, 0, 0>>,
     <<0, 0, 0, 0, 1, 0, 0, 0>>}

\* contents of blob
BlobVals == {<<>>, <<1, 2, 3>>, <<1, 2, 4>>}

\* values of the type of a KeyParameter member
ValuesOf(field) ==
    IF field = "blob" THEN BlobVals
    ELSE {SubSeq(u, 1, FieldSize[field]) : u \in UnionVals}

\* "KeyParameter param;": tag and f indeterminate, blob empty
DefaultConstructed ==
    {[tag |-> t, f |-> u, blob |-> <<>>] :
        t \in {Tag.INVALID, KM_TAG_KEY_TYPE}, u \in UnionVals}

\* "KeyParameter param{};" before anything is stored in it
ValueInitialized == [tag |-> Tag.INVALID, f |-> Zeros(UnionSize), blob |-> <<>>]

\* every KeyParameter of the model: any tag value with any payload
KeyParameters ==
    {[tag |-> t, f |-> u, blob |-> bl] :
        t \in AllTagValues, u \in UnionVals, bl \in BlobVals}

\* the argument lists tried on Authorization(ttag, ...)
ArgLists(ttag) ==
    IF ttag.tag_type = TagTypeValue("BOOL") THEN {<<>>}
    ELSE IF HasAccessor(ttag)
         THEN {<<v>> : v \in ValuesOf(FieldOfTypedTag(ttag))}
         ELSE {}

\* the KeyParameter objects a reference can point into
Store == [a |-> a, b |-> b]

NotMade == [by |-> "none"]

NoRes == [op |-> "none"]

---------------------------------------------------------------------------
(* The caller: builds KeyParameters, then applies one operation *)

Init ==
    /\ a = ValueInitialized
    /\ b = ValueInitialized
    /\ made = [a |-> NotMade, b |-> NotMade]
    /\ res = NoRes
    /\ pc = "start"

\* obj = Authorization(ttag, args...)
AuthorizationStep(obj) ==
    /\ made[obj].by = "none"
    /\ res = NoRes
    /\ \E ttag \in TypedTags :
        \E args \in ArgLists(ttag) :
            \E param0 \in DefaultConstructed :
                /\ AuthorizationCompiles(ttag, args)
                /\ LET param == Authorization(ttag, args, param0)
                   IN  /\ a' = IF obj = "a" THEN param ELSE a
                       /\ b' = IF obj = "b" THEN param ELSE b
                /\ made' = [made EXCEPT ![obj] =
                               [by |-> "Authorization", ttag |-> ttag, args |-> args]]
    /\ UNCHANGED <<res, pc>>

\* obj.tag = ...; obj.f.<member> = ...; obj.blob = ...: assigned directly
AssignStep(obj) ==
    /\ made[obj].by = "none"
    /\ res = NoRes
    /\ \E param \in KeyParameters :
        /\ a' = IF obj = "a" THEN param ELSE a
        /\ b' = IF obj = "b" THEN param ELSE b
    /\ made' = [made EXCEPT ![obj] = [by |-> "assign"]]
    /\ UNCHANGED <<res, pc>>

\* authorizationValue(ttag, a)
AuthorizationValueStep ==
    /\ made.a.by # "none"
    /\ res = NoRes
    /\ \E ttag \in TypedTags :
        /\ HasAccessor(ttag)
        /\ res' = [op |-> "authorizationValue", ttag |-> ttag,
                   result |-> authorizationValue(ttag, "a", Store)]
    /\ pc' = "done"
    /\ UNCHANGED <<a, b, made>>

\* a == b
EqualsStep ==
    /\ made.a.by # "none"
    /\ made.b.by # "none"
    /\ res = NoRes
    /\ res' = [op |-> "==", result |-> Equals(a, b)]
    /\ pc' = "done"
    /\ UNCHANGED <<a, b, made>>

\* one KeyParameter is built and read back
Next ==
    \/ AuthorizationStep("a")
    \/ AssignStep("a")
    \/ AuthorizationValueStep

Spec == Init /\ [][Next]_vars

\* accessTagValue(ttag, a) = v; then a is read through the const accessor
\* and through authorizationValue
WriteStep ==
    /\ made.a.by # "none"
    /\ res = NoRes
    /\ \E ttag \in TypedTags :
        /\ HasAccessor(ttag)
        /\ \E v \in ValuesOf(FieldOfTypedTag(ttag)) :
            LET s2 == AssignThrough(accessTagValueMutable(ttag, "a"), v, Store)
                w == authorizationValue(ttag, "a", s2)
            IN  /\ a' = s2.a
                /\ b' = s2.b
                /\ res' = [op |-> "write", ttag |-> ttag, v |-> v,
                           before |-> a,
                           read |-> Deref(accessTagValue(ttag, "a"), s2),
                           ok |-> isOk(w),
                           viaValue |-> IF isOk(w) THEN value(w, s2) ELSE UB]
    /\ pc' = "done"
    /\ UNCHANGED made

\* a == b and b == a
EqualsBothWaysStep ==
    /\ made.a.by # "none"
    /\ made.b.by # "none"
    /\ res = NoRes
    /\ res' = [op |-> "== both ways", ab |-> Equals(a, b), ba |-> Equals(b, a)]
    /\ pc' = "done"
    /\ UNCHANGED <<a, b, made>>

\* two KeyParameters are assigned any tag and payload and compared both ways
NextSym ==
    \/ AssignStep("a")
    \/ AssignStep("b")
    \/ EqualsBothWaysStep

SpecSym == Init /\ [][NextSym]_vars

\* a KeyParameter is built and then written through the mutable accessor
NextWrite ==
    \/ AuthorizationStep("a")
    \/ AssignStep("a")
    \/ WriteStep

SpecWrite == Init /\ [][NextWrite]_vars

\* two KeyParameters are built and compared
NextEq ==
    \/ AuthorizationStep("a")
    \/ AssignStep("a")
    \/ AuthorizationStep("b")
    \/ AssignStep("b")
    \/ EqualsStep

SpecEq == Init /\ [][NextEq]_vars

---------------------------------------------------------------------------
(* The caller of the fallback combinators: NullOrOr and defaultOr over the  *)
(* wrappers authorizationValue returns (NullOr<const uint32_t&>) and over   *)
(* wrappers of a plain value (NullOr<uint32_t>)                             *)

\* most arguments given to NullOrOr
MaxArgs == 3

\* the typed tags the wrappers are extracted with
CombinatorTags == {TAG("KEY_SIZE"), TAG("MAC_LENGTH")}

\* the KeyParameters they are extracted from
CombinatorParams ==
    {[param |-> Authorization(ttag, <<v>>, ValueInitialized),
      made |-> [by |-> "Authorization", ttag |-> ttag, args |-> <<v>>]] :
        ttag \in CombinatorTags, v \in ValuesOf("integer")}

\* NullOr<const uint32_t&>: what authorizationValue returns on a and on b
RefWrappers ==
    {authorizationValue(ttag, obj, Store) :
        ttag \in CombinatorTags, obj \in {"a", "b"}}

\* NullOr<uint32_t>
ValueWrappers ==
    LET T == [isRef |-> FALSE, isPtr |-> FALSE, field |-> "integer"]
    IN  {NullOrNull(T)} \cup {NullOrOf(T, v) : v \in ValuesOf("integer")}

InitNullOr ==
    /\ \E pa \in CombinatorParams, pb \in CombinatorParams :
        /\ a = pa.param
        /\ b = pb.param
        /\ made = [a |-> pa.made, b |-> pb.made]
    /\ res = NoRes
    /\ pc = "start"

\* NullOrOr(ws[1], ..., ws[n]), the arguments being of one type
NullOrOrStep ==
    /\ pc = "start"
    /\ \E W \in {RefWrappers, ValueWrappers} :
        \E n \in 1..MaxArgs :
            \E ws \in [1..n -> W] :
                res' = [op |-> "NullOrOr", args |-> ws, result |-> NullOrOr(ws)]
    /\ pc' = "done"
    /\ UNCHANGED <<a, b, made>>

\* defaultOr(optional, def)
DefaultOrStep ==
    /\ pc = "start"
    /\ \E optional \in RefWrappers \cup ValueWrappers :
        \E def \in ValuesOf("integer") :
            res' = [op |-> "defaultOr", optional |-> optional, def |-> def,
                    result |-> defaultOr(optional, def, Store)]
    /\ pc' = "done"
    /\ UNCHANGED <<a, b, made>>

\* the ValueT a NullOr is instantiated with: T, const T& and const T* for the
\* type T of each KeyParameter member
WrappedTypes ==
    {[isRef |-> k = "reference", isPtr |-> k = "pointer", field |-> f] :
        k \in {"value", "reference", "pointer"}, f \in Fields}

\* NullOr<ValueT> w; then w.isOk() and, for a ValueT that is no reference,
\* w.value()
NullOrDefaultStep ==
    /\ pc = "start"
    /\ \E T \in WrappedTypes :
        LET w == NullOrNull(T)
        IN  res' = [op |-> "NullOr", T |-> T, result |-> w, ok |-> isOk(w),
                    read |-> value(w, Store)]
    /\ pc' = "done"
    /\ UNCHANGED <<a, b, made>>

NextNullOr ==
    \/ NullOrOrStep
    \/ DefaultOrStep
    \/ NullOrDefaultStep

SpecNullOr == InitNullOr /\ [][NextNullOr]_vars

---------------------------------------------------------------------------
(* Properties *)

BOOL == TagTypeValue("BOOL")

\* a was built by Authorization(ttag, v) with a typed tag that is not boolean
BuiltWithValue(obj) ==
    /\ made[obj].by = "Authorization"
    /\ made[obj].ttag.tag_type # BOOL

\* a was built by Authorization(ttag) with a boolean typed tag
BuiltBoolean(obj) ==
    /\ made[obj].by = "Authorization"
    /\ made[obj].ttag.tag_type = BOOL

\* C1: for every typed tag T that is not boolean and every value v of the
\* type mapped to T, authorizationValue(T, Authorization(T, v)) is valid and
\* its value is v.
C1_RoundTrip ==
    (/\ res.op = "authorizationValue"
     /\ BuiltWithValue("a")
     /\ res.ttag = made.a.ttag)
    => /\ isOk(res.result)
       /\ value(res.result, Store) = made.a.args[1]

\* C1 witness: Authorization(TAG_NONCE, {1,2,3}) read back with TAG_NONCE.
C1_Witness ==
    /\ res.op = "authorizationValue"
    /\ BuiltWithValue("a")
    /\ res.ttag = made.a.ttag
    /\ res.ttag = TAG("NONCE")
    /\ made.a.args = << <<1, 2, 3>> >>
    /\ value(res.result, Store) = <<1, 2, 3>>

\* C2: for every boolean typed tag T, authorizationValue(T, Authorization(T))
\* is valid and its value is true.
C2_BooleanTrue ==
    (/\ res.op = "authorizationValue"
     /\ BuiltBoolean("a")
     /\ res.ttag = made.a.ttag)
    => /\ isOk(res.result)
       /\ value(res.result, Store) = <<1>>

\* C2 witness: Authorization(TAG_CALLER_NONCE) read back with TAG_CALLER_NONCE.
C2_Witness ==
    /\ res.op = "authorizationValue"
    /\ BuiltBoolean("a")
    /\ res.ttag = made.a.ttag
    /\ res.ttag = TAG("CALLER_NONCE")
    /\ isOk(res.result)

\* C3: authorizationValue(TAG_X, param) is invalid whenever param.tag differs
\* from TAG_X, whatever the payload of param holds.
C3_MismatchInvalid ==
    (res.op = "authorizationValue" /\ res.ttag.tag # a.tag)
    => ~isOk(res.result)

\* C3 witness: param = Authorization(TAG_ALGORITHM, v) read with TAG_PURPOSE.
C3_Witness ==
    /\ res.op = "authorizationValue"
    /\ made.a.by = "Authorization"
    /\ made.a.ttag = TAG("ALGORITHM")
    /\ res.ttag = TAG("PURPOSE")
    /\ ~isOk(res.result)

\* C4: for any KeyParameter param, however built, and any typed tag T with
\* param.tag = T, authorizationValue(T, param) is valid and its value is the
\* content of the field accessTagValue(T, param) designates.
C4_MatchReadsAccessorField ==
    (res.op = "authorizationValue" /\ res.ttag.tag = a.tag)
    => /\ isOk(res.result)
       /\ res.result.value_ = accessTagValue(res.ttag, "a")
       /\ value(res.result, Store) = ReadField(a, FieldOfTypedTag(res.ttag))

\* C4 witness: a directly assigned KeyParameter with tag KEY_SIZE whose f has
\* a one in the high word only, read with TAG_KEY_SIZE: f.integer, zero.
C4_Witness ==
    /\ res.op = "authorizationValue"
    /\ made.a.by = "assign"
    /\ a.tag = Tag.KEY_SIZE
    /\ a.f = <<0, 0, 0, 0, 1, 0, 0, 0>>
    /\ res.ttag = TAG("KEY_SIZE")
    /\ isOk(res.result)
    /\ value(res.result, Store) = <<0, 0, 0, 0>>

\* C5: two KeyParameters whose tags differ compare unequal, whatever their
\* payloads hold.
C5_DifferentTagsUnequal ==
    (res.op = "==" /\ a.tag # b.tag) => res.result = FALSE

\* C5 witness: tags KEY_SIZE and MAC_LENGTH over the same payload.
C5_Witness ==
    /\ res.op = "=="
    /\ a.tag = Tag.KEY_SIZE
    /\ b.tag = Tag.MAC_LENGTH
    /\ a.f = b.f
    /\ a.blob = b.blob
    /\ res.result = FALSE

\* C6: operator== is reflexive: a KeyParameter, of every category and with
\* any tag value it can hold, compares equal to itself.
C6_Reflexive ==
    (res.op = "==" /\ a = b) => res.result = TRUE

\* C7: for every typed tag T that is not boolean and values v1, v2 of its
\* mapped type, Authorization(T, v1) == Authorization(T, v2) exactly when
\* v1 = v2.
C7_EqualIffSameValue ==
    (/\ res.op = "=="
     /\ BuiltWithValue("a")
     /\ BuiltWithValue("b")
     /\ made.a.ttag = made.b.ttag)
    => (res.result = (made.a.args[1] = made.b.args[1]))

\* C7 witness: TAG_NONCE with bytes {1,2,3} and {1,2,4} compare unequal.
C7_Witness ==
    /\ res.op = "=="
    /\ BuiltWithValue("a")
    /\ BuiltWithValue("b")
    /\ made.a.ttag = TAG("NONCE")
    /\ made.b.ttag = TAG("NONCE")
    /\ made.a.args = << <<1, 2, 3>> >>
    /\ made.b.args = << <<1, 2, 4>> >>
    /\ res.result = FALSE

\* the boolean tags: the enumerators of Tag whose type is BOOL
BooleanTags == {t \in TagValues : typeFromTag(t) = BOOL}

\* C8: two KeyParameters with the same boolean tag compare equal for every
\* content of their payloads, differing boolValue included.
C8_BooleanAlwaysEqual ==
    (res.op = "==" /\ a.tag = b.tag /\ a.tag \in BooleanTags)
    => res.result = TRUE

\* C8 witness: tag CALLER_NONCE on both, boolValue false on one and true on
\* the other.
C8_Witness ==
    /\ res.op = "=="
    /\ a.tag = Tag.CALLER_NONCE
    /\ b.tag = Tag.CALLER_NONCE
    /\ ReadField(a, "boolValue") = <<0>>
    /\ ReadField(b, "boolValue") = <<1>>
    /\ res.result = TRUE

\* the positions of the valid arguments
ValidArgs(ws) == {i \in 1..Len(ws) : isOk(ws[i])}

\* the least element of a non-empty set of positions
Leftmost(S) == CHOOSE i \in S : \A j \in S : i <= j

\* C9: NullOrOr(w1, ..., wn) returns the leftmost valid argument (same
\* validity and value), and an invalid wrapper when no argument is valid.
C9_LeftmostValid ==
    (res.op = "NullOrOr")
    => IF ValidArgs(res.args) = {}
       THEN ~isOk(res.result)
       ELSE LET first == res.args[Leftmost(ValidArgs(res.args))]
            IN  /\ isOk(res.result)
                /\ res.result = first
                /\ value(res.result, Store) = value(first, Store)

\* C9 witness: NullOrOr(invalid, valid(v), valid(v')) with v # v' returns
\* valid(v).
C9_Witness ==
    /\ res.op = "NullOrOr"
    /\ Len(res.args) = 3
    /\ ~isOk(res.args[1])
    /\ isOk(res.args[2])
    /\ isOk(res.args[3])
    /\ value(res.args[2], Store) # value(res.args[3], Store)
    /\ res.result = res.args[2]

\* C10: defaultOr(wrapper, d) returns the wrapped value when the wrapper is
\* valid and d when it is invalid; the slot of an invalid wrapper is not read.
C10_DefaultOr ==
    (res.op = "defaultOr")
    => /\ res.result # UB
       /\ IF isOk(res.optional)
          THEN res.result = value(res.optional, Store)
          ELSE res.result = res.def

\* C10 witness: an invalid wrapper of a reference and a default that is not
\* the value-initialized one.
C10_Witness ==
    /\ res.op = "defaultOr"
    /\ ~isOk(res.optional)
    /\ res.optional.T.isRef
    /\ res.def = <<1, 0, 0, 0>>
    /\ res.result = <<1, 0, 0, 0>>

---------------------------------------------------------------------------
(* What the compiler decides: calls of Authorization, instances of         *)
(* TypedTag, typeFromTag, the overloads of accessTagValue                  *)

\* most value arguments tried on a call of Authorization
MaxCallArgs == 2

\* the values tried as arguments of Authorization(ttag, ...): values of the
\* mapped type, and uint32_t values where ttag has no mapped type
CallValues(ttag) ==
    IF HasAccessor(ttag) THEN ValuesOf(FieldOfTypedTag(ttag))
    ELSE ValuesOf("integer")

\* Authorization(ttag, args...) as written by a caller: it compiles and
\* yields a KeyParameter, or is rejected and yields none
AuthorizationCallStep ==
    /\ made.a.by = "none"
    /\ res = NoRes
    /\ \E ttag \in TypedTags :
        \E n \in 0..MaxCallArgs :
            \E args \in [1..n -> CallValues(ttag)] :
                \E param0 \in DefaultConstructed :
                    LET compiles == AuthorizationCompiles(ttag, args)
                    IN  /\ res' = [op |-> "Authorization", ttag |-> ttag,
                                   args |-> args, compiles |-> compiles]
                        /\ a' = IF compiles
                                THEN Authorization(ttag, args, param0) ELSE a
                        /\ made' = IF compiles
                                   THEN [made EXCEPT !.a =
                                            [by |-> "Authorization",
                                             ttag |-> ttag, args |-> args]]
                                   ELSE made
    /\ pc' = "done"
    /\ UNCHANGED b

\* low 28 bits tried on typeFromTag
LowBits == {0, 1, 5, 1005, 16201, 16202, 16777216, 268435455}

\* TypedTag<tag_type, tag>(): any TagType with any tag value
TypedTagStep ==
    /\ res = NoRes
    /\ \E type \in DOMAIN TagType :
        \E tag \in AllTagValues :
            LET ttag == TypedTag(TagTypeValue(type), tag)
            IN  res' = [op |-> "TypedTag", ttag |-> ttag,
                        constructs |-> TypedTagConstructs(ttag)]
    /\ pc' = "done"
    /\ UNCHANGED <<a, b, made>>

\* DECLARE_TYPED_TAG(name): the instance of Tag2TypedTag<Tag::name>::type
DeclareTypedTagStep ==
    /\ res = NoRes
    /\ \E name \in DeclaredTagNames :
        res' = [op |-> "DECLARE_TYPED_TAG", name |-> name, ttag |-> TAG(name),
                constructs |-> TypedTagConstructs(TAG(name))]
    /\ pc' = "done"
    /\ UNCHANGED <<a, b, made>>

\* typeFromTag(tag) on any top nibble with some low bits
TypeFromTagStep ==
    /\ res = NoRes
    /\ \E hi \in 0..15 :
        \E lo \in LowBits :
            res' = [op |-> "typeFromTag", tag |-> MkTag(hi, lo),
                    result |-> typeFromTag(MkTag(hi, lo))]
    /\ pc' = "done"
    /\ UNCHANGED <<a, b, made>>

\* overload resolution of accessTagValue(ttag, param) for a declared typed
\* tag: the fields of the overloads that accept it
AccessorStep ==
    /\ res = NoRes
    /\ \E ttag \in TypedTags :
        res' = [op |-> "accessTagValue", ttag |-> ttag,
                fields |-> AccessorFields(ttag)]
    /\ pc' = "done"
    /\ UNCHANGED <<a, b, made>>

\* switch (a.tag): the branches a tag value selects
SwitchStep ==
    /\ res = NoRes
    /\ \E tag \in AllTagValues :
        res' = [op |-> "switch", tag |-> tag, branches |-> BranchesOf(tag)]
    /\ pc' = "done"
    /\ UNCHANGED <<a, b, made>>

\* typeFromTag(tag) and Tag2TypedTag<tag>::type().maskedTag() on any top
\* nibble with some low bits
MaskedTagStep ==
    /\ res = NoRes
    /\ \E hi \in 0..15 :
        \E lo \in LowBits :
            LET tag == MkTag(hi, lo)
            IN  res' = [op |-> "maskedTag", tag |-> tag,
                        type |-> typeFromTag(tag),
                        masked |-> maskedTag(Tag2TypedTag(tag))]
    /\ pc' = "done"
    /\ UNCHANGED <<a, b, made>>

\* a typed tag declared with DECLARE_TYPED_TAG is looked up in all_tags_t
AllTagsStep ==
    /\ res = NoRes
    /\ \E name \in DeclaredTagNames :
        res' = [op |-> "all_tags_t", name |-> name,
                positions |-> PositionsInAllTags(name)]
    /\ pc' = "done"
    /\ UNCHANGED <<a, b, made>>

NextStatic ==
    \/ AuthorizationCallStep
    \/ AllTagsStep
    \/ MaskedTagStep
    \/ SwitchStep
    \/ AccessorStep
    \/ TypedTagStep
    \/ DeclareTypedTagStep
    \/ TypeFromTagStep

SpecStatic == Init /\ [][NextStatic]_vars

\* C11: Authorization accepts a call exactly when the number of value
\* arguments fits the type of the tag: none for a boolean tag, exactly one,
\* convertible to the mapped type, for any other; a rejected call produces
\* no KeyParameter.
C11_ArityByCategory ==
    (res.op = "Authorization")
    => /\ res.compiles =
            IF res.ttag.tag_type = BOOL THEN Len(res.args) = 0
            ELSE /\ Len(res.args) = 1
                 /\ HasAccessor(res.ttag)
                 /\ res.args[1] \in ValuesOf(FieldOfTypedTag(res.ttag))
       /\ res.compiles => /\ made.a.by = "Authorization"
                          /\ a.tag = res.ttag.tag
       /\ ~res.compiles => /\ made.a.by = "none"
                           /\ a = ValueInitialized

\* C11 witness: Authorization(TAG_KEY_SIZE, v, v') with two value arguments
\* is rejected and no KeyParameter exists.
C11_Witness ==
    /\ res.op = "Authorization"
    /\ res.ttag = TAG("KEY_SIZE")
    /\ Len(res.args) = 2
    /\ ~res.compiles
    /\ made.a.by = "none"

\* C12: a TypedTag<tag_type, tag> can be constructed only when
\* typeFromTag(tag) = tag_type (the top four bits of tag are those of
\* tag_type), and every DECLARE_TYPED_TAG instance can be.
C12_TypedTagConstruction ==
    /\ (res.op = "TypedTag")
       => (res.constructs =
              (res.ttag.tag_type.hi = res.ttag.tag.hi /\ res.ttag.tag_type.lo = 0))
    /\ (res.op = "DECLARE_TYPED_TAG")
       => /\ res.constructs
          /\ res.ttag.tag = Tag[res.name]
          /\ res.ttag.tag_type.hi = Tag[res.name].hi

\* C12 witness: TAG_USER_SECURE_ID, a tag with low bits and type ULONG_REP,
\* is constructed.
C12_Witness ==
    /\ res.op = "DECLARE_TYPED_TAG"
    /\ res.name = "USER_SECURE_ID"
    /\ res.ttag.tag_type = TagTypeValue("ULONG_REP")
    /\ res.constructs

\* C12 witness of the rejection: TypedTag<TagType::UINT, Tag::NONCE> is not
\* constructed.
C12_RejectWitness ==
    /\ res.op = "TypedTag"
    /\ res.ttag = TypedTag(TagTypeValue("UINT"), Tag.NONCE)
    /\ ~res.constructs

\* C15: typeFromTag keeps the top four bits of the 32-bit tag and clears the
\* low 28: tags differing in the low 28 bits only have the same type, and
\* typeFromTag(type | n) = type for every TagType and n below 2^28.
C15_TypeFromTagMask ==
    (res.op = "typeFromTag")
    => /\ res.result = [hi |-> res.tag.hi, lo |-> 0]
       /\ \A lo \in LowBits : typeFromTag(MkTag(res.tag.hi, lo)) = res.result
       /\ \A type \in DOMAIN TagType :
            TagType[type] = res.tag.hi => res.result = TagTypeValue(type)

\* C15 witness: typeFromTag(KM_TAG_FBE_ICE) = TagType::BOOL.
C15_Witness ==
    /\ res.op = "typeFromTag"
    /\ res.tag = KM_TAG_FBE_ICE
    /\ res.result = TagTypeValue("BOOL")

\* C13: a default-constructed NullOr is invalid; wrapping a reference or a
\* pointer its slot is null, wrapping a plain value type its slot is the
\* default-constructed value, which value() returns.
C13_DefaultNullOr ==
    (res.op = "NullOr")
    => /\ ~res.ok
       /\ (res.T.isRef \/ res.T.isPtr) => res.result.value_ = nullptr
       /\ ~(res.T.isRef \/ res.T.isPtr)
          => LET default == IF res.T.field = "blob" THEN <<>>
                            ELSE [i \in 1..FieldSize[res.T.field] |-> 0]
             IN  /\ res.result.value_ = default
                 /\ res.read = default

\* C13 witness: NullOr<uint64_t>() is invalid and reads as 0.
C13_Witness ==
    /\ res.op = "NullOr"
    /\ res.T = [isRef |-> FALSE, isPtr |-> FALSE, field |-> "longInteger"]
    /\ ~res.ok
    /\ res.read = <<0, 0, 0, 0, 0, 0, 0, 0>>

\* the member Authorization stored the value in: f.boolValue for a boolean
\* typed tag, the accessor's field otherwise
ActiveField(obj) ==
    IF made[obj].ttag.tag_type = BOOL THEN "boolValue"
    ELSE FieldOfTypedTag(made[obj].ttag)

\* the bytes of f that the member does not occupy
BytesOutside(field) ==
    IF field = "blob" THEN 1..UnionSize ELSE (FieldSize[field] + 1)..UnionSize

\* C14: in every KeyParameter returned by Authorization, boolean typed tags
\* included, the numeric payload outside the active member reads as zero
\* (f is a union: the other members overlay the active one, so the
\* statement is taken over the bytes of f the active member leaves).
C14_OtherSlotsZero ==
    (made.a.by = "Authorization")
    => \A i \in BytesOutside(ActiveField("a")) : a.f[i] = 0

\* C16: for every typed tag declared with DECLARE_TYPED_TAG, TAG_INVALID
\* among them, accessTagValue resolves to exactly one KeyParameter field.
C16_ExactlyOneField ==
    (res.op = "accessTagValue") => Cardinality(res.fields) = 1

\* C17: a value v written through the mutable accessTagValue(T, param) is
\* what the const accessTagValue(T, param) then reads, and what
\* authorizationValue(T, param) reads when param.tag = T; the write leaves
\* param.tag unchanged.
C17_WriteThenRead ==
    (res.op = "write")
    => /\ res.read = res.v
       /\ a.tag = res.before.tag
       /\ (a.tag = res.ttag.tag) => (res.ok /\ res.viaValue = res.v)

\* C17 witness: a built as Authorization(TAG_NONCE, {1,2,3}), then
\* accessTagValue(TAG_NONCE, a) = {1,2,4}, read back both ways.
C17_Witness ==
    /\ res.op = "write"
    /\ res.ttag = TAG("NONCE")
    /\ made.a.by = "Authorization"
    /\ res.before.blob = <<1, 2, 3>>
    /\ res.v = <<1, 2, 4>>
    /\ res.read = <<1, 2, 4>>
    /\ res.ok
    /\ res.viaValue = <<1, 2, 4>>

\* the tags of the declared typed tags that are not boolean and have an
\* accessor
ValueTags ==
    {TAG(n).tag : n \in {m \in DeclaredTagNames :
                            TAG(m).tag_type # BOOL /\ HasAccessor(TAG(m))}}

\* C18: for every non-boolean tag with a typed accessor, a == b on two
\* KeyParameters with that tag is the equality of the field accessTagValue
\* maps the tag to, for integer, long, date, blob and every enum tag,
\* USER_AUTH_TYPE included.
C18_ComparesAccessorField ==
    (res.op = "==" /\ a.tag = b.tag /\ a.tag \in ValueTags)
    => (res.result = SameField(a, b, FieldOfTypedTag(Tag2TypedTag(a.tag))))

\* C18 witness: tag USER_AUTH_TYPE on both, f.hardwareAuthenticatorType
\* differing in its second byte only: unequal.
C18_Witness ==
    /\ res.op = "=="
    /\ a.tag = Tag.USER_AUTH_TYPE
    /\ b.tag = Tag.USER_AUTH_TYPE
    /\ ReadField(a, "hardwareAuthenticatorType") = <<0, 0, 0, 0>>
    /\ ReadField(b, "hardwareAuthenticatorType") = <<0, 1, 0, 0>>
    /\ res.result = FALSE

\* the tags declared with DECLARE_TYPED_TAG
DeclaredTags == {TAG(n).tag : n \in DeclaredTagNames}

\* the tag types whose comparison each branch of operator== is
BranchTypes ==
    [boolean |-> {"BOOL"}, integer |-> {"UINT", "UINT_REP"},
     longInteger |-> {"ULONG", "ULONG_REP"}, dateTime |-> {"DATE"},
     bytes |-> {"BYTES", "BIGNUM"}, enum |-> {"ENUM", "ENUM_REP"}]

\* tag is a label of the branch br and of no other, and br is the branch of
\* the type of tag
InBranchOfItsType(tag, branches) ==
    \E br \in DOMAIN Branches :
        /\ branches = {br}
        /\ \E type \in BranchTypes[br] : typeFromTag(tag) = TagTypeValue(type)

C20_NoCaseUnequal ==
    /\ \A tag \in {KM_TAG_FBE_ICE, KM_TAG_DIGEST_OLD} : BranchesOf(tag) = {}
    /\ (res.op = "==" /\ a.tag = b.tag /\ BranchesOf(a.tag) = {})
       => res.result = FALSE

\* C20 witness: tag KM_TAG_FBE_ICE on both with the same payload: unequal.
C20_Witness ==
    /\ res.op = "=="
    /\ a.tag = KM_TAG_FBE_ICE
    /\ b.tag = KM_TAG_FBE_ICE
    /\ a.f = b.f
    /\ a.blob = b.blob
    /\ res.result = FALSE

\* C21: operator== is symmetric: for all KeyParameters a and b, of any tags
\* and payloads, a == b and b == a have the same result.
C21_Symmetric ==
    (res.op = "== both ways") => res.ab = res.ba

\* C21 witness: a tagged CALLER_NONCE and b tagged KEY_SIZE with different
\* payloads are unequal both ways.
C21_Witness ==
    /\ res.op = "== both ways"
    /\ a.tag = Tag.CALLER_NONCE
    /\ b.tag = Tag.KEY_SIZE
    /\ a.f # b.f
    /\ res.ab = FALSE
    /\ res.ba = FALSE

\* the field the tag selects: the one accessTagValue maps its typed tag to,
\* none for a tag whose typed tag has no accessor
SelectedFields(tag) == AccessorFields(Tag2TypedTag(tag))

\* C22: operator== depends only on the tag and on the field the tag selects:
\* two KeyParameters with the same recognized tag (one with a case in the
\* switch) and the same content in that field compare equal, even when every
\* other payload field differs.
C22_OnlySelectedField ==
    (/\ res.op = "=="
     /\ a.tag = b.tag
     /\ BranchesOf(a.tag) # {}
     /\ \A field \in SelectedFields(a.tag) : SameField(a, b, field))
    => res.result = TRUE

\* C22 witness: tag KEY_SIZE on both and the same f.integer, the blobs and
\* the upper half of f.longInteger differing: equal.
C22_Witness ==
    /\ res.op = "=="
    /\ a.tag = Tag.KEY_SIZE
    /\ b.tag = Tag.KEY_SIZE
    /\ SameField(a, b, "integer")
    /\ ~SameField(a, b, "blob")
    /\ ~SameField(a, b, "longInteger")
    /\ res.result = TRUE

\* x | y on natural numbers
RECURSIVE BitOr(_, _)
BitOr(x, y) ==
    IF x = 0 THEN y
    ELSE IF y = 0 THEN x
    ELSE (IF x % 2 = 1 \/ y % 2 = 1 THEN 1 ELSE 0)
         + 2 * BitOr(x \div 2, y \div 2)

\* the 32-bit pattern of type | masked, masked being a number below 2^28
TypeOrMasked(type, masked) ==
    [hi |-> BitOr(type.hi, masked \div 268435456),
     lo |-> BitOr(type.lo, masked % 268435456)]

\* C23: for every 32-bit tag value, typeFromTag(tag) and maskedTag() split
\* the encoding without loss or overlap: maskedTag() is the low 28 bits of
\* tag, a number in [0, 2^28), it shares no bit with typeFromTag(tag), and
\* typeFromTag(tag) | maskedTag() is tag.
C23_SplitWithoutLoss ==
    (res.op = "maskedTag")
    => /\ 0 <= res.masked
       /\ res.masked < 268435456
       /\ res.masked = res.tag.lo
       /\ And32(res.type, [hi |-> 0, lo |-> res.masked]) = [hi |-> 0, lo |-> 0]
       /\ TypeOrMasked(res.type, res.masked) = res.tag

\* C23 witness: 0xFFFFFFFF splits into type 0xF0000000 and 0x0FFFFFFF.
C23_Witness ==
    /\ res.op = "maskedTag"
    /\ res.tag = [hi |-> 15, lo |-> 268435455]
    /\ res.type = [hi |-> 15, lo |-> 0]
    /\ res.masked = 268435455

\* C24: all_tags_t contains every typed tag declared with
\* DECLARE_TYPED_TAG exactly once: none is missing and none appears twice.
C24_AllTagsComplete ==
    (res.op = "all_tags_t") => Cardinality(res.positions) = 1

====
